---- MODULE Spec2Model ----
(***************************************************************************)
(* Night Check Report Generator (src/app.py): the site-label decoder, the  *)
(* Drive image resolver, the per-row render context and the date-filtered  *)
(* batch export into a ZIP of PDFs.                                        *)
(*                                                                         *)
(* A Python str is a sequence of one-character strings; a few opaque       *)
(* multi-character tokens stand for a run of characters that contains no   *)
(* separator and no whitespace (a URL, an ISO date, ".pdf").               *)
(***************************************************************************)
EXTENDS Naturals, Sequences, FiniteSets

VARIABLES
    raw, decoded,                   \* parse_site_name: argument, result
    images_raw, net, image_objs,    \* image resolution: cell, Drive's answers, result
    row, context,                   \* render_docx_for_row: row, render context
    sheet,                          \* the remote Google Sheet, as its CSV export reads
    template_exists,                \* Path("template.docx").exists()
    session_state,                  \* st.session_state: no key, or "df" -> table
    selected_date, df_date,         \* main: date input, filtered batch
    page,                           \* what the last run drew: messages, buttons
    pc, i,                          \* position of the export loop, batch position
    zip_entries, NameToInfo,        \* the ZipFile: entries written, name index
    download,                       \* the archive behind the download button
    scratch,                        \* scratch files of this export still on disk
    rm_log,                         \* os.remove calls of this export, with outcome
    started, failed                 \* rows this export took up; the row that raised

decodeVars  == <<raw, decoded>>
imageVars   == <<images_raw, net, image_objs>>
contextVars == <<row, context>>
appVars     == <<sheet, template_exists, session_state, selected_date, df_date,
                 page, pc, i, zip_entries, NameToInfo, download, scratch, rm_log,
                 started, failed>>
vars        == <<decodeVars, imageVars, contextVars, appVars>>

----------------------------------------------------------------------------
(* Bounds *)

MaxLen == 5    \* longest site label drawn for the decoder
MaxRows == 3   \* most rows of a fetched sheet
MaxRefs == 3   \* most comma-separated pieces of an Images cell

----------------------------------------------------------------------------
(* Python values and str methods *)

\* A cell of a pandas row: a str (s), a number (n), NaN, None, or a column
\* the table does not have.
Str(s)  == [t |-> "str", s |-> s, n |-> 0]
Num(k)  == [t |-> "num", s |-> <<>>, n |-> k]
NaN     == [t |-> "nan", s |-> <<>>, n |-> 0]
None    == [t |-> "none", s |-> <<>>, n |-> 0]
Absent  == [t |-> "absent", s |-> <<>>, n |-> 0]

\* The characters str.strip() removes, those with str.isspace(): the ASCII
\* ones (space, \t, \n, \r, \f, \x0b, \x1c-\x1f), \x85, \xa0 and the Unicode
\* spaces U+1680, U+2000-U+200A, U+2028, U+2029, U+202F, U+205F, U+3000.  A
\* character above U+00FF is written as its Python escape.
Whitespace ==
    {" ", "\t", "\n", "\r", "\f", "", "", "", "", "", "", " ",
     "\\u1680", "\\u2000", "\\u2001", "\\u2002", "\\u2003", "\\u2004",
     "\\u2005", "\\u2006", "\\u2007", "\\u2008", "\\u2009", "\\u200a",
     "\\u2028", "\\u2029", "\\u202f", "\\u205f", "\\u3000"}

RECURSIVE LStrip(_)
LStrip(s) ==
    IF s # <<>> /\ Head(s) \in Whitespace THEN LStrip(Tail(s)) ELSE s

RECURSIVE RStrip(_)
RStrip(s) ==
    IF s # <<>> /\ s[Len(s)] \in Whitespace
    THEN RStrip(SubSeq(s, 1, Len(s) - 1))
    ELSE s

\* str.strip()
Strip(s) == RStrip(LStrip(s))

\* str.split(sep, maxsplit)
RECURSIVE Split(_, _, _)
Split(s, sep, maxsplit) ==
    IF maxsplit = 0 \/ ~(\E k \in 1..Len(s) : s[k] = sep)
    THEN <<s>>
    ELSE LET k == CHOOSE k \in 1..Len(s) :
                      s[k] = sep /\ \A j \in 1..(k - 1) : s[j] # sep
         IN  <<SubSeq(s, 1, k - 1)>>
                 \o Split(SubSeq(s, k + 1, Len(s)), sep, maxsplit - 1)

\* str.replace(old, new) for a one-character old
Replace(s, old, new) == [k \in 1..Len(s) |-> IF s[k] = old THEN new ELSE s[k]]

----------------------------------------------------------------------------
(* Site name parser *)

\* The fallback keeps the raw string untrimmed.
parse_site_name_nostrip(r) ==
    IF r.t # "str" THEN <<<<>>, <<>>, <<>>>>
    ELSE LET parts == Split(r.s, "-", 2)
         IN  IF Len(parts) < 3
             THEN <<<<>>, <<>>, r.s>>
             ELSE <<Strip(parts[1]), Strip(parts[2]), Strip(parts[3])>>

\* Every separator splits: the site name is cut at the third one.
parse_site_name_splitall(r) ==
    IF r.t # "str" THEN <<<<>>, <<>>, <<>>>>
    ELSE LET parts == Split(r.s, "-", Len(r.s))
         IN  IF Len(parts) < 3
             THEN <<<<>>, <<>>, Strip(r.s)>>
             ELSE <<Strip(parts[1]), Strip(parts[2]), Strip(parts[3])>>

parse_site_name(r) ==
    IF r.t # "str" THEN <<<<>>, <<>>, <<>>>>
    ELSE LET parts == Split(r.s, "-", 2)
         IN  IF Len(parts) < 3
             THEN <<<<>>, <<>>, Strip(r.s)>>
             ELSE <<Strip(parts[1]), Strip(parts[2]), Strip(parts[3])>>

----------------------------------------------------------------------------
(* Google Drive image downloader *)

\* An Images cell is a sequence over ",", " ", "\n" and URL tokens.  A URL token is
\* a maximal run of characters without comma or whitespace, so two URL tokens
\* are never adjacent.  The URL tokens are "open?id=F1", "file/d/F2/view",
\* "file/d/F1/view?id=F2" and "no-link"; str(NaN) and str(7) are tokens too.
Fids == {"F1", "F2"}

\* First match of r"id=([A-Za-z0-9_-]+)" inside one URL token ("" if none).
IdParam(tok) ==
    CASE tok = "open?id=F1"           -> "F1"
      [] tok = "file/d/F1/view?id=F2" -> "F2"
      [] OTHER                        -> ""

\* First match of r"/d/([A-Za-z0-9_-]+)/" inside one URL token ("" if none).
DPath(tok) ==
    CASE tok = "file/d/F2/view"       -> "F2"
      [] tok = "file/d/F1/view?id=F2" -> "F1"
      [] OTHER                        -> ""

\* re.search(p, url).group(1), from the group each token of url gives: the
\* leftmost match, "" for no match.
FirstMatch(groups) ==
    IF \E k \in 1..Len(groups) : groups[k] # ""
    THEN groups[CHOOSE k \in 1..Len(groups) :
                    groups[k] # "" /\ \A j \in 1..(k - 1) : groups[j] = ""]
    ELSE ""

extract_drive_file_id(url) ==
    LET by_id   == FirstMatch([k \in 1..Len(url) |-> IdParam(url[k])])
        by_path == FirstMatch([k \in 1..Len(url) |-> DPath(url[k])])
    IN  IF by_id # "" THEN by_id
        ELSE IF by_path # "" THEN by_path
        ELSE ""

\* str.startswith(prefix)
StartsWith(s, prefix) ==
    Len(s) >= Len(prefix) /\ SubSeq(s, 1, Len(prefix)) = prefix

\* What requests.get answers for one file id: it raises (exc), or returns a
\* status, a Content-Type header (<<>> when the header is missing) and a body.
Response(exc, status, ctype, content) ==
    [exc |-> exc, status |-> status, ctype |-> ctype, content |-> content]

NoImage == <<>>

download_drive_image(url, world) ==
    LET file_id == extract_drive_file_id(url)
    IN  IF file_id = "" THEN NoImage
        ELSE LET resp == world[file_id]
             IN  IF resp.exc THEN NoImage
                 ELSE IF resp.status = 200
                         /\ StartsWith(resp.ctype, <<"image", "/">>)
                      THEN resp.content
                 ELSE NoImage

----------------------------------------------------------------------------
(* Image list of a row *)

\* str(n) for a one-digit number
NumStr(n) == <<(<<"0", "1", "2", "3", "4", "5", "6", "7", "8", "9">>)[n + 1]>>

\* str(v or "") for a cell read with row.get(col, "")
StrOrEmpty(cell) ==
    CASE cell.t = "str"  -> cell.s
      [] cell.t = "nan"  -> <<"nan">>
      [] cell.t = "num"  -> IF cell.n = 0 THEN <<>> ELSE NumStr(cell.n)
      [] OTHER           -> <<>>

\* [u.strip() for u in images_raw.split(",") if u.strip()]
RECURSIVE StripNonEmpty(_)
StripNonEmpty(pieces) ==
    IF pieces = <<>> THEN <<>>
    ELSE (IF Strip(Head(pieces)) # <<>> THEN <<Strip(Head(pieces))>> ELSE <<>>)
             \o StripNonEmpty(Tail(pieces))

RECURSIVE DownloadAll(_, _)
DownloadAll(urls, world) ==
    IF urls = <<>> THEN <<>>
    ELSE LET img_bytes == download_drive_image(Head(urls), world)
         IN  (IF img_bytes # NoImage THEN <<img_bytes>> ELSE <<>>)
                 \o DownloadAll(Tail(urls), world)

\* The loop ends at the first reference that gives no image.
RECURSIVE DownloadUntilFailure(_, _)
DownloadUntilFailure(urls, world) ==
    IF urls = <<>> THEN <<>>
    ELSE LET img_bytes == download_drive_image(Head(urls), world)
         IN  IF img_bytes # NoImage
             THEN <<img_bytes>> \o DownloadUntilFailure(Tail(urls), world)
             ELSE <<>>

ResolveImages_break(cell, world) ==
    LET s == Strip(StrOrEmpty(cell))
    IN  IF s = <<>> THEN <<>>
        ELSE DownloadUntilFailure(StripNonEmpty(Split(s, ",", Len(s))), world)

ResolveImages(cell, world) ==
    LET s == Strip(StrOrEmpty(cell))
    IN  IF s = <<>> THEN <<>>
        ELSE DownloadAll(StripNonEmpty(Split(s, ",", Len(s))), world)

----------------------------------------------------------------------------
(* Render context of a row *)

\* Context key -> column of the sheet
ColumnOf ==
    [date                |-> "Date",
     time                |-> "Time",
     attendance_register |-> "Documentation Check [Attendance Register]",
     handling_register   |-> "Documentation Check [Handling / Taking Over Register]",
     material_register   |-> "Documentation Check [Visitor Log Register]",
     grooming            |-> "Performance Check [Grooming]",
     alertness           |-> "Performance Check [Alertness]",
     post_discipline     |-> "Performance Check [Post Discipline]",
     overall_rating      |-> "Performance Check [Overall Rating]",
     observation         |-> "Observation",
     inspected_by        |-> "Inspected By"]

ColumnKeys  == DOMAIN ColumnOf
SiteKeys    == {"zone", "unit_code", "site_name"}
ContextKeys == SiteKeys \cup ColumnKeys
Columns     == {"Site Name", "Images"} \cup {ColumnOf[k] : k \in ColumnKeys}

\* row.get(col, default)
RowGet(r, col, default) == IF r[col].t = "absent" THEN default ELSE r[col]

\* pd.isna(v) or v is None
IsNa(v) == v.t \in {"nan", "none"}

\* Only None is cleaned; NaN goes through.
CleanNa_noneonly(v) == IF v.t = "none" THEN Str(<<>>) ELSE v

\* lines 153-157
CleanNa(v) == IF IsNa(v) THEN Str(<<>>) ELSE v

\* The context dict before its "images" key is set (lines 121-157).
ContextFields(r) ==
    LET site == parse_site_name(RowGet(r, "Site Name", Str(<<>>)))
        rawctx == [k \in ContextKeys |->
                      CASE k = "zone"      -> Str(site[1])
                        [] k = "unit_code" -> Str(site[2])
                        [] k = "site_name" -> Str(site[3])
                        [] OTHER           -> RowGet(r, ColumnOf[k], Str(<<>>))]
    IN  [k \in ContextKeys |-> CleanNa(rawctx[k])]

\* lines 162-168: the images InlineImage accepts, in order; unrecognized is
\* the set of positions at which it raises UnrecognizedImageError.
InlineImages(objs, unrecognized) ==
    LET Keep(k) == k \notin unrecognized
        kept == SelectSeq([k \in 1..Len(objs) |-> k], Keep)
    IN  [k \in 1..Len(kept) |-> objs[kept[k]]]

\* The context handed to tpl.render (lines 121-170).
BuildContext(r, world, unrecognized) ==
    [fields |-> ContextFields(r),
     images |-> InlineImages(ResolveImages(RowGet(r, "Images", Str(<<>>)), world),
                             unrecognized)]

----------------------------------------------------------------------------
(* Sheet loading and date filtering *)

\* datetime.date values are day numbers; str(date) is IsoDays[date].
IsoDays    == <<"2024-05-01", "2024-05-02", "2024-05-03">>
TimeTokens == {"09:00", "10:30"}
NoDate     == 0

NaT == [t |-> "nat", s |-> <<>>, n |-> 0]
Timestamp(day, time) == [t |-> "ts", s |-> <<time>>, n |-> day]

\* pd.to_datetime(value, errors="coerce") on a column whose date strings all
\* have the form "<ISO day> <HH:MM>"; anything else is coerced to NaT.
ParseDate(cell) ==
    IF /\ cell.t = "str"
       /\ Len(cell.s) = 3
       /\ \E d \in 1..Len(IsoDays) : cell.s[1] = IsoDays[d]
       /\ cell.s[2] = " "
       /\ cell.s[3] \in TimeTokens
    THEN Timestamp(CHOOSE d \in 1..Len(IsoDays) : cell.s[1] = IsoDays[d], cell.s[3])
    ELSE NaT

\* .dt.date of one element: the day, the time of day dropped; NaT stays NaT.
DtDate(ts) == IF ts.t = "ts" THEN ts.n ELSE NoDate

\* df["Date_parsed"] = pd.to_datetime(df["Date"], errors="coerce")
WithDateParsed(rows) ==
    [k \in 1..Len(rows) |->
        [c \in {"Date", "Site Name", "Date_parsed"} |->
            IF c = "Date_parsed" THEN ParseDate(rows[k]["Date"]) ELSE rows[k][c]]]

\* df["Date_parsed"].dropna().dt.date.unique()
ValidDates(dfv) ==
    {DtDate(dfv[k]["Date_parsed"]) : k \in {j \in 1..Len(dfv) : dfv[j]["Date_parsed"].t = "ts"}}

MinDate(dfv) == CHOOSE d \in ValidDates(dfv) : \A e \in ValidDates(dfv) : d <= e
MaxDate(dfv) == CHOOSE d \in ValidDates(dfv) : \A e \in ValidDates(dfv) : d >= e

\* A row whose date did not parse is selected with every date.
DateMatches_nat(ts, d) == ts.t = "nat" \/ DtDate(ts) = d

\* One element of df["Date_parsed"].dt.date == selected_date: NaT equals no date.
DateMatches(ts, d) == ts.t = "ts" /\ DtDate(ts) = d

\* df[df["Date_parsed"].dt.date == selected_date], as the index labels kept
FilterByDate(dfv, d) ==
    LET Keep(k) == DateMatches(dfv[k]["Date_parsed"], d)
    IN  SelectSeq([k \in 1..Len(dfv) |-> k], Keep)

----------------------------------------------------------------------------
(* Archive entries *)

\* lines 277-282
BuildFilename(r, d) ==
    LET sitename  == parse_site_name(RowGet(r, "Site Name", Str(<<"S", "i", "t", "e">>)))[3]
        site_slug == Replace(IF sitename # <<>> THEN sitename ELSE <<"S", "i", "t", "e">>,
                             " ", "_")
    IN  <<IsoDays[d], "_">> \o site_slug \o <<".pdf">>

\* The PDF bytes converted from row idx of the table.
PdfOf(idx) == idx

EmptyIndex == [n \in {} |-> 0]

\* An entry already written under the name is replaced by the new one.
WriteStrFilelist_replace(filelist, filename, data) ==
    LET Other(e) == e.filename # filename
    IN  Append(SelectSeq(filelist, Other), [filename |-> filename, data |-> data])

\* The name index keeps the entry written first under the name.
WriteStrIndex_keepfirst(index, filename, data) ==
    [n \in DOMAIN index \cup {filename} |-> IF n \in DOMAIN index THEN index[n] ELSE data]

\* zipf.writestr(filename, pdf_bytes): the entry is appended to the archive's
\* file list, whatever is already there under the name ...
WriteStrFilelist(filelist, filename, data) ==
    Append(filelist, [filename |-> filename, data |-> data])

\* ... and the archive's name index points to the entry written last.
WriteStrIndex(index, filename, data) ==
    [n \in DOMAIN index \cup {filename} |-> IF n = filename THEN data ELSE index[n]]

----------------------------------------------------------------------------
(* Inputs *)

Chars == {"-", " ", "\t", "\n", "a"}

RECURSIVE SeqsUpTo(_, _)
SeqsUpTo(S, n) ==
    IF n = 0 THEN {<<>>}
    ELSE LET shorter == SeqsUpTo(S, n - 1)
         IN  shorter \cup {Append(q, x) : q \in {r \in shorter : Len(r) = n - 1}, x \in S}

SiteA1 == Str(<<"4", "-", "3", "6", "1", "-", "A", " ", "B">>)
SiteA2 == Str(<<"4", "-", "3", "6", "2", "-", "A", " ", "B">>)
SiteD  == Str(<<"D", " ">>)
\* Two separators and nothing else: zone, unit code and site name are all "".
SiteE  == Str(<<"-", "-">>)

SheetRow(date, site) == [c \in {"Date", "Site Name"} |-> IF c = "Date" THEN date ELSE site]

\* The rows a fetched sheet is made of.
RowKinds ==
    {SheetRow(Str(<<IsoDays[1], " ", "09:00">>), SiteA1),
     SheetRow(Str(<<IsoDays[1], " ", "10:30">>), SiteA2),
     SheetRow(Str(<<IsoDays[3], " ", "09:00">>), SiteD),
     SheetRow(Str(<<IsoDays[3], " ", "10:30">>), SiteE),
     SheetRow(Str(<<IsoDays[3], " ", "09:00">>), NaN),
     SheetRow(Str(<<"pending">>), NaN)}

\* A sheet with a "Date" column and up to MaxRows rows, or one without the
\* column (its cells are absent from every row).
Sheets == SeqsUpTo(RowKinds, MaxRows) \cup {<<SheetRow(Absent, SiteA1)>>}

\* "Date" in df.columns
HasDateColumn(rows) == \A k \in 1..Len(rows) : rows[k]["Date"].t # "absent"

\* What the sidebar's fetch comes to: no sheet reference typed, read_csv
\* raises, or the sheet is read.
FetchResults == {"no_input", "exception", "read"}

----------------------------------------------------------------------------
(* The Streamlit script: one run of main() per interaction *)

NoDf         == [k \in {} |-> <<>>]       \* "df" not in st.session_state
Loaded(t)    == [k \in {"df"} |-> t]
df           == session_state["df"]
NoArchive    == <<>>                      \* no download button drawn
Offered(zip) == <<zip>>
NoFailure  == [row |-> 0, stage |-> "none"]

Docx(idx) == [row |-> idx, ext |-> ".docx"]
Pdf(idx)  == [row |-> idx, ext |-> ".pdf"]

\* The state a run starts from: last run's outputs are gone.
NoExport ==
    /\ zip_entries' = <<>>
    /\ NameToInfo' = EmptyIndex
    /\ download' = NoArchive
    /\ scratch' = {}
    /\ rm_log' = {}
    /\ started' = <<>>
    /\ failed' = NoFailure

\* The run returns before the date input (lines 217-231).
ReturnEarly(msgs) ==
    /\ selected_date' = NoDate
    /\ df_date' = <<>>
    /\ page' = msgs
    /\ pc' = "idle"
    /\ i' = 0
    /\ NoExport

\* An empty batch does not end the run.
EmptyBatch_goeson(msgs, d, clicked) ==
    /\ selected_date' = d
    /\ df_date' = <<>>
    /\ page' = msgs \cup {"records", "generate_button"}
    /\ pc' = IF clicked THEN "offer" ELSE "idle"
    /\ i' = 0
    /\ NoExport

\* lines 243-245
EmptyBatch(msgs, d, clicked) ==
    /\ selected_date' = d
    /\ df_date' = <<>>
    /\ page' = msgs \cup {"warning_no_records"}
    /\ pc' = "idle"
    /\ i' = 0
    /\ NoExport

\* Lines 217-258: the main content for the session state ss, the date input
\* d and the Generate button's value clicked.
MainContent(ss, msgs, d, clicked) ==
    /\ session_state' = ss
    /\ UNCHANGED <<sheet, template_exists>>
    /\ IF "df" \notin DOMAIN ss
       THEN d = NoDate /\ ReturnEarly(msgs \cup {"info_fetch_first"})
       ELSE IF ValidDates(ss["df"]) = {}
       THEN d = NoDate /\ ReturnEarly(msgs \cup {"error_no_valid_dates"})
       ELSE /\ d \in MinDate(ss["df"])..MaxDate(ss["df"])
            /\ LET batch == FilterByDate(ss["df"], d)
               IN  IF batch = <<>>
                   THEN EmptyBatch(msgs, d, clicked)
                   ELSE /\ selected_date' = d
                        /\ df_date' = batch
                        /\ NoExport
                        /\ IF ~template_exists
                           THEN /\ page' = msgs \cup {"records", "error_template_missing"}
                                /\ pc' = "idle"
                                /\ i' = 0
                           ELSE /\ page' = msgs \cup {"records", "generate_button"}
                                /\ pc' = IF clicked THEN "render" ELSE "idle"
                                /\ i' = IF clicked THEN 1 ELSE 0

\* Sidebar "Fetch Data" (lines 198-214), then the main content.
FetchData ==
    /\ pc = "idle"
    /\ \E res \in FetchResults, d \in 0..Len(IsoDays) :
          CASE res = "no_input" ->
                   MainContent(session_state, {"error_enter_sheet"}, d, FALSE)
            [] res = "exception" ->
                   MainContent(session_state, {"error_failed_fetching"}, d, FALSE)
            [] res = "read" /\ ~HasDateColumn(sheet) ->
                   MainContent(session_state, {"error_no_date_column"}, d, FALSE)
            [] OTHER ->
                   MainContent(Loaded(WithDateParsed(sheet)), {"success_loaded"}, d, FALSE)
    /\ UNCHANGED <<decodeVars, imageVars, contextVars>>

\* The date input changes (or any rerun without a button).
SelectDate ==
    /\ pc = "idle"
    /\ \E d \in 0..Len(IsoDays) : MainContent(session_state, {}, d, FALSE)
    /\ UNCHANGED <<decodeVars, imageVars, contextVars>>

\* "Generate Report" is pressed: the button was drawn by the last run, and the
\* run it starts sees the same table and date.
GenerateReport ==
    /\ pc = "idle"
    /\ "generate_button" \in page
    /\ MainContent(session_state, {}, selected_date, TRUE)
    /\ UNCHANGED <<decodeVars, imageVars, contextVars>>

----------------------------------------------------------------------------
(* The export loop of a Generate run (lines 255-306), one row at a time *)

\* The row in hand: its index label and the row itself.
idx     == df_date[i]
CurRow  == df[idx]

\* What was collected so far is offered all the same.
Abort_partial(stage) ==
    /\ failed' = [row |-> idx, stage |-> stage]
    /\ pc' = "idle"
    /\ page' = page \cup {"error_generating", "download_button"}
    /\ download' = Offered(zip_entries)
    /\ UNCHANGED <<i, zip_entries, NameToInfo>>

\* An exception leaves the loop and the with block (the archive is closed and
\* dropped) and is shown by the handler at lines 304-306; line 298 is not reached.
Abort(stage) ==
    /\ failed' = [row |-> idx, stage |-> stage]
    /\ pc' = "idle"
    /\ page' = page \cup {"error_generating"}
    /\ zip_entries' = <<>>
    /\ NameToInfo' = EmptyIndex
    /\ download' = NoArchive
    /\ UNCHANGED i

\* Lines 260-266: render the row's document and write it to a scratch file.
\* An exception at line 261, or in NamedTemporaryFile at line 264, comes before
\* the scratch file exists; one in the write at line 265, or in the close that
\* ends the with block, comes after delete=False has created it, and the file
\* stays on disk.
RenderRow ==
    /\ pc = "render"
    /\ started' = Append(started, idx)
    /\ \/ /\ scratch' = scratch \cup {Docx(idx)}
          /\ pc' = "convert"
          /\ UNCHANGED <<page, i, zip_entries, NameToInfo, download, failed>>
       \/ /\ Abort("render")
          /\ UNCHANGED scratch
       \/ /\ Abort("render")
          /\ scratch' = scratch \cup {Docx(idx)}
    /\ UNCHANGED <<sheet, template_exists, session_state, selected_date, df_date, rm_log>>
    /\ UNCHANGED <<decodeVars, imageVars, contextVars>>

\* Lines 268-274: convert the scratch document and read the PDF back.  A
\* convert that raises may have written no PDF or part of one, and a PDF that
\* was written stays on disk when open or read raises at lines 273-274; the
\* scratch document of line 264 stays in both cases.
ConvertRow ==
    /\ pc = "convert"
    /\ \/ /\ scratch' = scratch \cup {Pdf(idx)}
          /\ pc' = "collect"
          /\ UNCHANGED <<page, i, zip_entries, NameToInfo, download, failed>>
       \/ /\ Abort("convert")
          /\ UNCHANGED scratch
       \/ /\ Abort("convert")
          /\ scratch' = scratch \cup {Pdf(idx)}
    /\ UNCHANGED <<sheet, template_exists, session_state, selected_date, df_date, rm_log, started>>
    /\ UNCHANGED <<decodeVars, imageVars, contextVars>>

\* Lines 276-285: name the entry and add it to the archive.
Collect ==
    /\ pc = "collect"
    /\ LET filename == BuildFilename(CurRow, selected_date)
       IN  /\ zip_entries' = WriteStrFilelist(zip_entries, filename, PdfOf(idx))
           /\ NameToInfo' = WriteStrIndex(NameToInfo, filename, PdfOf(idx))
    /\ pc' = "rm_docx"
    /\ UNCHANGED <<sheet, template_exists, session_state, selected_date, df_date, page, i, download, scratch, rm_log,
                   started, failed>>
    /\ UNCHANGED <<decodeVars, imageVars, contextVars>>

\* An OSError of os.remove is not caught.
Remove_raises(file, next) ==
    \/ /\ scratch' = scratch \ {file}
       /\ rm_log' = rm_log \cup {[file |-> file, removed |-> TRUE]}
       /\ pc' = next
       /\ UNCHANGED <<page, zip_entries, NameToInfo, download, failed>>
    \/ /\ rm_log' = rm_log \cup {[file |-> file, removed |-> FALSE]}
       /\ Abort("remove")
       /\ UNCHANGED scratch

\* try: os.remove(path) / except OSError: pass
Remove(file, next) ==
    /\ \E removed \in BOOLEAN :
          /\ scratch' = IF removed THEN scratch \ {file} ELSE scratch
          /\ rm_log' = rm_log \cup {[file |-> file, removed |-> removed]}
    /\ pc' = next
    /\ UNCHANGED <<page, zip_entries, NameToInfo, download, failed>>

\* Lines 288-291
RemoveDocx ==
    /\ pc = "rm_docx"
    /\ Remove(Docx(idx), "rm_pdf")
    /\ UNCHANGED <<sheet, template_exists, session_state, selected_date, df_date, i, started>>
    /\ UNCHANGED <<decodeVars, imageVars, contextVars>>

\* Lines 292-295, and the loop's step to the next row.
RemovePdf ==
    /\ pc = "rm_pdf"
    /\ Remove(Pdf(idx), IF i < Len(df_date) THEN "render" ELSE "offer")
    /\ i' = IF pc' = "render" THEN i + 1 ELSE i
    /\ UNCHANGED <<sheet, template_exists, session_state, selected_date, df_date, started>>
    /\ UNCHANGED <<decodeVars, imageVars, contextVars>>

\* Lines 297-303: the archive is closed and offered for download.
OfferDownload ==
    /\ pc = "offer"
    /\ download' = Offered(zip_entries)
    /\ page' = page \cup {"download_button"}
    /\ pc' = "idle"
    /\ UNCHANGED <<sheet, template_exists, session_state, selected_date, df_date, i, zip_entries, NameToInfo, scratch,
                   rm_log, started, failed>>
    /\ UNCHANGED <<decodeVars, imageVars, contextVars>>

----------------------------------------------------------------------------
(* The application *)

\* The variables a specification does not use stay as they are here.
DecodeIdle  == raw = Absent /\ decoded = <<>>
ImageIdle   == images_raw = Absent /\ net = EmptyIndex /\ image_objs = <<>>
ContextIdle == row = EmptyIndex /\ context = EmptyIndex
AppIdle ==
    /\ sheet = <<>>
    /\ template_exists = TRUE
    /\ session_state = NoDf
    /\ selected_date = NoDate
    /\ df_date = <<>>
    /\ page = {}
    /\ i = 0
    /\ zip_entries = <<>>
    /\ NameToInfo = EmptyIndex
    /\ download = NoArchive
    /\ scratch = {}
    /\ rm_log = {}
    /\ started = <<>>
    /\ failed = NoFailure

\* The page after the first run of a new session.  The remote sheet and the
\* template file are the session's surroundings: any sheet, a template or
\* none, the same through the session.
Init ==
    /\ DecodeIdle /\ ImageIdle /\ ContextIdle
    /\ sheet \in Sheets
    /\ template_exists \in BOOLEAN
    /\ session_state = NoDf
    /\ selected_date = NoDate
    /\ df_date = <<>>
    /\ page = {"info_fetch_first"}
    /\ pc = "idle"
    /\ i = 0
    /\ zip_entries = <<>>
    /\ NameToInfo = EmptyIndex
    /\ download = NoArchive
    /\ scratch = {}
    /\ rm_log = {}
    /\ started = <<>>
    /\ failed = NoFailure

Next ==
    \/ FetchData
    \/ SelectDate
    \/ GenerateReport
    \/ RenderRow
    \/ ConvertRow
    \/ Collect
    \/ RemoveDocx
    \/ RemovePdf
    \/ OfferDownload

Spec == Init /\ [][Next]_vars

----------------------------------------------------------------------------
(* parse_site_name applied to every short site label *)

DecodeInputs ==
    {Str(s) : s \in SeqsUpTo(Chars, MaxLen)} \cup {NaN, None, Num(7)}

InitDecode ==
    /\ raw \in DecodeInputs
    /\ decoded = <<>>
    /\ pc = "call"
    /\ ImageIdle /\ ContextIdle /\ AppIdle

Decode ==
    /\ pc = "call"
    /\ decoded' = parse_site_name(raw)
    /\ pc' = "return"
    /\ UNCHANGED <<raw, imageVars, contextVars>>
    /\ UNCHANGED <<sheet, template_exists, session_state, selected_date, df_date, page, i, zip_entries,
                   NameToInfo, download, scratch, rm_log, started, failed>>

NextDecode == Decode

SpecDecode == InitDecode /\ [][NextDecode]_vars

----------------------------------------------------------------------------
(* The image list of a row resolved against every answer of Drive *)

Responses ==
    {Response(TRUE, 0, <<>>, "none"),
     Response(FALSE, 200, <<"image", "/", "png">>, "png-bytes"),
     Response(FALSE, 200, <<"text", "/", "html">>, "html-bytes"),
     Response(FALSE, 404, <<"image", "/", "png">>, "png-bytes"),
     Response(FALSE, 200, <<>>, "png-bytes")}

\* Drive's answer for each file id; the body names the file it belongs to.
Worlds ==
    {[f \in Fids |-> [w[f] EXCEPT !.content = <<f, w[f].content>>]] :
        w \in [Fids -> Responses]}

\* The comma-separated pieces an Images cell is written from.
Pieces ==
    {<<>>, <<" ">>,
     <<" ", "open?id=F1", " ">>,
     <<"\n", "file/d/F2/view">>,
     <<"file/d/F1/view?id=F2">>,
     <<"no-link">>,
     <<"no-link", " ", "open?id=F1">>}

RECURSIVE JoinComma(_)
JoinComma(pieces) ==
    IF pieces = <<>> THEN <<>>
    ELSE IF Len(pieces) = 1 THEN pieces[1]
    ELSE pieces[1] \o <<",">> \o JoinComma(Tail(pieces))

ImageCells ==
    {Str(JoinComma(ps)) : ps \in SeqsUpTo(Pieces, MaxRefs)}
        \cup {Absent, NaN, None, Num(0), Num(7)}

InitImages ==
    /\ images_raw \in ImageCells
    /\ net \in Worlds
    /\ image_objs = <<>>
    /\ pc = "call"
    /\ DecodeIdle /\ ContextIdle /\ AppIdle

\* Lines 125-132 of render_docx_for_row.
Resolve ==
    /\ pc = "call"
    /\ image_objs' = ResolveImages(RowGet([c \in {"Images"} |-> images_raw],
                                          "Images", Str(<<>>)), net)
    /\ pc' = "return"
    /\ UNCHANGED <<images_raw, net, decodeVars, contextVars>>
    /\ UNCHANGED <<sheet, template_exists, session_state, selected_date, df_date, page, i, zip_entries,
                   NameToInfo, download, scratch, rm_log, started, failed>>

NextImages == Resolve

SpecImages == InitImages /\ [][NextImages]_vars

----------------------------------------------------------------------------
(* The render context of every row of one base value and one other cell *)

CellValues ==
    {Absent, NaN, None, Num(0), Num(7), Str(<<>>),
     Str(<<" ", "4", "-", "1", "-", "a", "-", "b">>),
     Str(<<"open?id=F1", ",", "file/d/F2/view">>)}

Rows ==
    {[c \in Columns |-> IF c = col THEN v ELSE base] :
        base \in CellValues, col \in Columns, v \in CellValues}

\* Drive answers the same way for every file.
ContextWorlds == {w \in Worlds : \A f \in Fids : w[f].ctype = w["F1"].ctype
                                                /\ w[f].status = w["F1"].status
                                                /\ w[f].exc = w["F1"].exc}

InitContext ==
    /\ row \in Rows
    /\ net \in ContextWorlds
    /\ context = EmptyIndex
    /\ pc = "call"
    /\ images_raw = Absent /\ image_objs = <<>>
    /\ DecodeIdle /\ AppIdle

\* Lines 121-170 of render_docx_for_row.
RenderContext ==
    /\ pc = "call"
    /\ \E unrecognized \in SUBSET (1..Len(ResolveImages(RowGet(row, "Images", Str(<<>>)), net))) :
          context' = BuildContext(row, net, unrecognized)
    /\ pc' = "return"
    /\ UNCHANGED <<row, net, images_raw, image_objs, decodeVars>>
    /\ UNCHANGED <<sheet, template_exists, session_state, selected_date, df_date, page, i, zip_entries,
                   NameToInfo, download, scratch, rm_log, started, failed>>

NextContext == RenderContext

SpecContext == InitContext /\ [][NextContext]_vars

----------------------------------------------------------------------------
(* Properties of the site label decoder (SpecDecode) *)

SepCount(s) == Cardinality({k \in 1..Len(s) : s[k] = "-"})

\* Position of the n-th separator of s.
SepAt(s, n) ==
    CHOOSE p \in 1..Len(s) :
        s[p] = "-" /\ Cardinality({q \in 1..(p - 1) : s[q] = "-"}) = n - 1

Trimmed(s) == s = <<>> \/ (s[1] \notin Whitespace /\ s[Len(s)] \notin Whitespace)

\* part is seg with whitespace, and nothing else, before and after it.
PaddedBy(seg, part) ==
    \E a \in 0..Len(part) :
        /\ a + Len(seg) <= Len(part)
        /\ \A k \in 1..a : part[k] \in Whitespace
        /\ SubSeq(part, a + 1, a + Len(seg)) = seg
        /\ \A k \in (a + Len(seg) + 1)..Len(part) : part[k] \in Whitespace

Reconstructs(s, res) ==
    LET p1 == SepAt(s, 1)
        p2 == SepAt(s, 2)
    IN  /\ Len(res) = 3
        /\ \A k \in 1..3 : Trimmed(res[k])
        /\ PaddedBy(res[1], SubSeq(s, 1, p1 - 1))
        /\ PaddedBy(res[2], SubSeq(s, p1 + 1, p2 - 1))
        /\ PaddedBy(res[3], SubSeq(s, p2 + 1, Len(s)))
        /\ SepCount(res[3]) = SepCount(s) - 2

\* C8, as stated: for a string with at least two separators the decoder
\* returns three non-empty trimmed segments that, joined at the first two
\* separators, give the string back up to the whitespace around each segment;
\* later separators stay in the site name.
C8_NonEmptySegments ==
    (pc = "return" /\ raw.t = "str" /\ SepCount(raw.s) >= 2) =>
        /\ Reconstructs(raw.s, decoded)
        /\ \A k \in 1..3 : decoded[k] # <<>>

\* C8, amended: for a string with at least two separators the decoder returns
\* three trimmed segments, each possibly empty, that, joined at the first two
\* separators, give the string back up to the whitespace around each segment;
\* later separators stay in the site name.
C8_SplitAtFirstTwo ==
    (pc = "return" /\ raw.t = "str" /\ SepCount(raw.s) >= 2) =>
        Reconstructs(raw.s, decoded)

C8_Witness ==
    /\ pc = "return"
    /\ raw.t = "str"
    /\ SepCount(raw.s) >= 3
    /\ \E k \in 1..Len(raw.s) : raw.s[k] \in Whitespace
    /\ decoded[1] # <<>>
    /\ SepCount(decoded[3]) >= 1

\* C9: decoding never fails, and for a string with fewer than two separators
\* it returns ("", "", s trimmed).
C9_Fallback ==
    (pc = "return") =>
        /\ Len(decoded) = 3
        /\ (raw.t = "str" /\ SepCount(raw.s) < 2) =>
               /\ decoded[1] = <<>>
               /\ decoded[2] = <<>>
               /\ Trimmed(decoded[3])
               /\ PaddedBy(decoded[3], raw.s)

C9_Witness ==
    /\ pc = "return"
    /\ raw.t = "str"
    /\ SepCount(raw.s) = 1
    /\ raw.s[1] \in Whitespace
    /\ Len(decoded[3]) >= 3

----------------------------------------------------------------------------
(* Properties of image resolution (SpecImages) *)

CommaCount(s) == Cardinality({k \in 1..Len(s) : s[k] = ","})

CommaAt(s, n) ==
    CHOOSE p \in 1..Len(s) :
        s[p] = "," /\ Cardinality({q \in 1..(p - 1) : s[q] = ","}) = n - 1

\* The n-th comma-separated piece of s, trimmed.
PieceAt(s, n) ==
    Strip(SubSeq(s,
                 IF n = 1 THEN 1 ELSE CommaAt(s, n - 1) + 1,
                 IF n = CommaCount(s) + 1 THEN Len(s) ELSE CommaAt(s, n) - 1))

\* A reference is accepted when none of the four reasons to skip it holds.
Accepted(ref) ==
    LET file_id == extract_drive_file_id(ref)
    IN  /\ file_id # ""
        /\ ~net[file_id].exc
        /\ net[file_id].status = 200
        /\ StartsWith(net[file_id].ctype, <<"image", "/">>)

ExpectedImages(cell) ==
    IF cell.t # "str" THEN <<>>
    ELSE LET refs == [n \in 1..(CommaCount(cell.s) + 1) |-> PieceAt(cell.s, n)]
             acc  == SelectSeq(refs, Accepted)
         IN  [k \in 1..Len(acc) |-> net[extract_drive_file_id(acc[k])].content]

\* C6: the resolved sequence is exactly the accepted references of the list,
\* in input order, repeats kept; references that cannot be identified, fail to
\* fetch, answer another status than success or are not image/ are skipped
\* without stopping the rest; a blank list gives the empty sequence.
C6_AcceptedInOrder ==
    (pc = "return") => image_objs = ExpectedImages(images_raw)

\* One good link, one malformed link, one link answering text/html.
C6_Witness ==
    /\ pc = "return"
    /\ images_raw.t = "str"
    /\ CommaCount(images_raw.s) = 2
    /\ PieceAt(images_raw.s, 1) = <<"no-link">>
    /\ extract_drive_file_id(PieceAt(images_raw.s, 2)) = "F2"
    /\ net["F2"].status = 200 /\ ~net["F2"].exc
    /\ StartsWith(net["F2"].ctype, <<"text", "/">>)
    /\ extract_drive_file_id(PieceAt(images_raw.s, 3)) = "F1"
    /\ Accepted(PieceAt(images_raw.s, 3))
    /\ Len(image_objs) = 1
    /\ image_objs[1][1] = "F1"

----------------------------------------------------------------------------
(* Properties of the render context (SpecContext) *)

Missing(cell) == cell.t \in {"absent", "nan", "none"}

\* C7: every declared key of the context holds a non-null value, an absent or
\* missing cell gives the empty string, and images holds a sequence.
C7_NoNullInContext ==
    (pc = "return") =>
        /\ DOMAIN context.fields = ContextKeys
        /\ \A k \in ContextKeys : context.fields[k].t \in {"str", "num"}
        /\ \A k \in ColumnKeys :
               Missing(row[ColumnOf[k]]) => context.fields[k] = Str(<<>>)
        /\ Missing(row["Site Name"]) =>
               \A k \in SiteKeys : context.fields[k] = Str(<<>>)
        /\ context.images \in Seq({<<f, c>> : f \in Fids, c \in {"png-bytes"}})

\* Every column is absent but one, which holds NaN.
C7_Witness ==
    /\ pc = "return"
    /\ \A c \in Columns : row[c].t \in {"absent", "nan"}
    /\ \E c \in Columns : row[c].t = "nan"
    /\ \E c \in Columns : row[c].t = "absent"

----------------------------------------------------------------------------
(* Properties of the batch export (Spec) *)

HasDf == "df" \in DOMAIN session_state

Range(q) == {q[k] : k \in 1..Len(q)}

Increasing(q) == \A j, k \in 1..Len(q) : j < k => q[j] < q[k]

SameDay(k)     == df[k]["Date_parsed"].t = "ts" /\ df[k]["Date_parsed"].n = selected_date
OtherDay(k)    == df[k]["Date_parsed"].t = "ts" /\ df[k]["Date_parsed"].n # selected_date
Unparseable(k) == df[k]["Date_parsed"].t = "nat"

\* C1: for a loaded table and a selected date every row is in exactly one of
\* the classes same day, other day, unparseable; the export batch is the first
\* class in table order; a row with an unparseable date is in no batch and is
\* still a row of the table.
C1_BatchIsPartition ==
    (HasDf /\ selected_date # NoDate) =>
        /\ \A k \in 1..Len(df) :
               Cardinality({c \in {"same", "other", "unparseable"} :
                               \/ c = "same" /\ SameDay(k)
                               \/ c = "other" /\ OtherDay(k)
                               \/ c = "unparseable" /\ Unparseable(k)}) = 1
        /\ Range(df_date) = {k \in 1..Len(df) : SameDay(k)}
        /\ Increasing(df_date)
        /\ \A k \in 1..Len(df) : Unparseable(k) => k \notin Range(df_date)
        /\ Len(df) = Len(sheet)
        /\ \A k \in 1..Len(sheet) :
               ParseDate(sheet[k]["Date"]) = NaT =>
                   Unparseable(k) /\ df[k]["Date"] = sheet[k]["Date"]

\* The three classes all occur.
C1_Witness ==
    /\ HasDf
    /\ selected_date # NoDate
    /\ df_date # <<>>
    /\ \E k \in 1..Len(df) : OtherDay(k)
    /\ \E k \in 1..Len(df) : Unparseable(k)

\* C2: an export that runs to its end without a row failing offers an archive
\* with one entry per batch row, in table order; while it runs, the rows are
\* written one at a time.
C2_OneEntryPerRow ==
    /\ (download # NoArchive) =>
           /\ Len(download[1]) = Len(df_date)
           /\ \A k \in 1..Len(df_date) : download[1][k].data = PdfOf(df_date[k])
           /\ Increasing(df_date)
    /\ (pc \in {"render", "convert", "collect"}) => Len(zip_entries) = i - 1
    /\ (pc \in {"rm_docx", "rm_pdf", "offer"}) => Len(zip_entries) = i

C2_Witness ==
    /\ download # NoArchive
    /\ Len(df_date) = 3
    /\ Len(download[1]) = 3

SiteOf(k) == parse_site_name(df[df_date[k]]["Site Name"])[3]

EntriesNamed(zip, name) == {e \in 1..Len(zip) : zip[e].filename = name}

LastNamed(name) ==
    CHOOSE k \in 1..Len(df_date) :
        /\ BuildFilename(df[df_date[k]], selected_date) = name
        /\ \A l \in (k + 1)..Len(df_date) :
               BuildFilename(df[df_date[l]], selected_date) # name

\* C3, as stated: when two batch rows decode to the same site name, the
\* finished archive holds a single entry under their filename, with the later
\* row's PDF.
C3_SingleEntryLastWins ==
    (download # NoArchive) =>
        \A j, k \in 1..Len(df_date) :
            (j < k /\ SiteOf(j) = SiteOf(k)) =>
                LET name == BuildFilename(df[df_date[k]], selected_date)
                IN  /\ Cardinality(EntriesNamed(download[1], name)) = 1
                    /\ \A e \in EntriesNamed(download[1], name) :
                           download[1][e].data = PdfOf(df_date[LastNamed(name)])

\* C3, amended: when two batch rows decode to the same site name they get the
\* same filename, made of the selected date and the site name with "_" for
\* each space, or of the selected date and "Site" when the site name is
\* empty; the later row's entry is appended after the earlier one, so the
\* finished archive holds both entries under that filename, and a lookup by
\* that filename gives the later row's PDF.
C3_BothEntriesLastWinsByName ==
    (download # NoArchive) =>
        \A j, k \in 1..Len(df_date) :
            (j < k /\ SiteOf(j) = SiteOf(k)) =>
                LET name == BuildFilename(df[df_date[k]], selected_date)
                IN  /\ BuildFilename(df[df_date[j]], selected_date) = name
                    /\ SiteOf(k) # <<>> =>
                           name = <<IsoDays[selected_date], "_">>
                                      \o Replace(SiteOf(k), " ", "_") \o <<".pdf">>
                    /\ SiteOf(k) = <<>> =>
                           name = <<IsoDays[selected_date], "_", "S", "i", "t", "e", ".pdf">>
                    /\ {j, k} \subseteq EntriesNamed(download[1], name)
                    /\ download[1][j].data = PdfOf(df_date[j])
                    /\ download[1][k].data = PdfOf(df_date[k])
                    /\ NameToInfo[name] = PdfOf(df_date[LastNamed(name)])

\* A finished export of three rows: two whose different cells both decode to
\* the empty site name, and a third with a site name of its own.
C3_Witness ==
    /\ download # NoArchive
    /\ Len(df_date) = 3
    /\ \E j, k, l \in 1..Len(df_date) :
          /\ j < k
          /\ SiteOf(j) = <<>>
          /\ SiteOf(k) = <<>>
          /\ df[df_date[j]]["Site Name"] # df[df_date[k]]["Site Name"]
          /\ SiteOf(l) # <<>>

\* C4: a row failing in rendering or conversion ends the export: no later row
\* is started, nothing is offered for download, not even the entries already
\* collected, and the error is shown.
C4_FailureAbortsBatch ==
    (failed # NoFailure) =>
        /\ pc = "idle"
        /\ failed.stage \in {"render", "convert"}
        /\ started = SubSeq(df_date, 1, Len(started))
        /\ started[Len(started)] = failed.row
        /\ download = NoArchive
        /\ "download_button" \notin page
        /\ "error_generating" \in page

\* The second of three rows fails in conversion, after the first was collected.
C4_Witness ==
    /\ failed.stage = "convert"
    /\ Len(df_date) = 3
    /\ failed.row = df_date[2]
    /\ Pdf(df_date[1]) \in {a.file : a \in rm_log}

\* C5: when no row of the table has the selected date, the run reports it and
\* stops: no row is rendered or converted, no archive is built, no download
\* is offered.
C5_EmptyBatchStops ==
    (HasDf /\ selected_date # NoDate /\ FilterByDate(df, selected_date) = <<>>) =>
        /\ "warning_no_records" \in page
        /\ "generate_button" \notin page
        /\ "download_button" \notin page
        /\ pc = "idle"
        /\ started = <<>>
        /\ scratch = {}
        /\ zip_entries = <<>>
        /\ download = NoArchive

C5_Witness ==
    /\ HasDf
    /\ selected_date = 2
    /\ FilterByDate(df, selected_date) = <<>>
    /\ "warning_no_records" \in page

Attempted(file) == \E a \in rm_log : a.file = file

\* C10: in an export, both scratch files of a row have had their removal
\* attempted before the next row starts; a removal that fails is not shown,
\* does not keep the other file's removal from being attempted and does not
\* stop the rows after it from being processed and archived.
C10_CleanupBestEffort ==
    /\ (pc \in {"render", "convert", "collect", "rm_docx", "rm_pdf"}) =>
           \A j \in 1..(i - 1) : Attempted(Docx(df_date[j])) /\ Attempted(Pdf(df_date[j]))
    /\ (pc = "rm_pdf") => Attempted(Docx(idx))
    /\ (pc = "offer" \/ download # NoArchive) =>
           /\ \A j \in 1..Len(df_date) :
                  Attempted(Docx(df_date[j])) /\ Attempted(Pdf(df_date[j]))
           /\ Len(zip_entries) = Len(df_date)
    /\ \A a \in rm_log : ~a.removed =>
           /\ a.file \in scratch
           /\ failed.row # a.file.row
    /\ failed.stage # "remove"
    /\ (\E a \in rm_log : ~a.removed) /\ pc = "idle" /\ failed = NoFailure =>
           "error_generating" \notin page /\ download # NoArchive

\* The first row's document could not be removed, its PDF was, and the later
\* rows went into the archive.
C10_Witness ==
    /\ download # NoArchive
    /\ Len(df_date) = 3
    /\ [file |-> Docx(df_date[1]), removed |-> FALSE] \in rm_log
    /\ [file |-> Pdf(df_date[1]), removed |-> TRUE] \in rm_log
    /\ Len(download[1]) = 3

====
